---------------------------- MODULE Spec2Model ----------------------------
(***************************************************************************)
(* Model of cutil.PtrGuard (NewPtrGuard, Store, Release, pinUntilRelease)  *)
(* and of its user rados.writeStep, statement by statement.  Every guard   *)
(* has an owner task (the caller of NewPtrGuard, Store and Release) and a  *)
(* background goroutine; the two meet only on the mutexes pinned and       *)
(* release, which are used as binary semaphores.                           *)
(***************************************************************************)
EXTENDS Integers, Naturals, Sequences, FiniteSets, TLC

VARIABLES ptr, store, pinned, release, mem, pc, bgpc, arg, addr, hist, fatal

vars == <<ptr, store, pinned, release, mem, pc, bgpc, arg, addr, hist, fatal>>

(* ------------------------------ bounds -------------------------------- *)

\* number of guards (each with its own owner, goroutine and foreign cell)
NumGuards == 2
\* the base addresses a pinned buffer may have are 1..MaxAddr
MaxAddr == 2
\* number of Store/Release calls an owner makes on its guard
MaxCalls == 4

(* ------------------------------ domains ------------------------------- *)

Guards == 1..NumGuards

\* the guard whose owner issues arbitrary call sequences
Solo == {1}

\* the nil pointer / the zero uintptr
NULL == 0

\* foreign (C) memory: one pointer-wide cell per guard
Cells == 1..NumGuards

\* the values a CPtr argument may take: nil or the address of a foreign cell
CPtrs == {NULL} \cup Cells

\* nonzero uintptr values of Go pointers
Addrs == 1..MaxAddr

\* the buffer of guard g when the first buffer lies at base address a
BufAddr(a, g) == a + (g - 1)

\* the values foreign code writes into its cells: zero, or a value of its
\* own, which is the address of no pinned buffer
ForeignVals == {0, MaxAddr + NumGuards}

\* the foreign cell a scripted owner publishes its pointer in
CellOf(g) == g

NewPcs == {"n_ptr", "n_lock_release", "n_lock_pinned", "n_go", "n_wait"}

StorePcs == {"s_check", "s_bound", "s_bind", "s_write"}

ReleasePcs == {"r_check", "r_zero_ptr", "r_test_store", "r_zero_slot",
               "r_clear_store", "r_fire", "r_wait"}

BgPcs == {"unspawned", "spawned", "pin_signal", "pin_wait", "unwound", "done"}

\* one completed call of the owner: what was called, on which cell, how it ended
Call(op, c, res) == [op |-> op, cell |-> c, res |-> res]

(* ------------------------------ Init ---------------------------------- *)

\* NewPtrGuard(goPtr) has been called and stands before its first statement;
\* v is the zero PtrGuard (both mutexes unlocked, ptr 0, store nil).
Init ==
    /\ \E a \in Addrs : addr = [g \in Guards |-> BufAddr(a, g)]
    /\ ptr = [g \in Guards |-> 0]
    /\ store = [g \in Guards |-> NULL]
    /\ pinned = [g \in Guards |-> FALSE]
    /\ release = [g \in Guards |-> FALSE]
    /\ mem = [c \in Cells |-> 0]
    /\ pc = [g \in Guards |-> "n_ptr"]
    /\ bgpc = [g \in Guards |-> "unspawned"]
    /\ arg = [g \in Guards |-> NULL]
    /\ hist = [g \in Guards |-> <<>>]
    /\ fatal = FALSE

(* --------------------------- owner bookkeeping ------------------------ *)

\* the owner moves to its next statement
Goto(g, l) == pc' = [pc EXCEPT ![g] = l]

\* the call in progress ends (returns, or unwinds with a panic)
Ret(g, op, res) ==
    /\ pc' = [pc EXCEPT ![g] = "idle"]
    /\ hist' = [hist EXCEPT ![g] = Append(@, Call(op, arg[g], res))]
    /\ arg' = [arg EXCEPT ![g] = NULL]

(* ------------------------------ NewPtrGuard --------------------------- *)

\* v.ptr = uintptr(goPtr)
NewSetPtr(g) ==
    /\ ~fatal /\ pc[g] = "n_ptr"
    /\ ptr' = [ptr EXCEPT ![g] = addr[g]]
    /\ Goto(g, "n_lock_release")
    /\ UNCHANGED <<store, pinned, release, mem, bgpc, arg, addr, hist, fatal>>

\* a NewPtrGuard that leaves the release mutex unlocked
NewNoLockRelease(g) ==
    /\ ~fatal /\ pc[g] = "n_lock_release"
    /\ Goto(g, "n_lock_pinned")
    /\ UNCHANGED <<ptr, store, pinned, release, mem, bgpc, arg, addr, hist, fatal>>

\* v.release.Lock()
NewLockRelease(g) ==
    /\ ~fatal /\ pc[g] = "n_lock_release"
    /\ ~release[g]
    /\ release' = [release EXCEPT ![g] = TRUE]
    /\ Goto(g, "n_lock_pinned")
    /\ UNCHANGED <<ptr, store, pinned, mem, bgpc, arg, addr, hist, fatal>>

\* a NewPtrGuard that leaves the pinned mutex unlocked
NewNoLockPinned(g) ==
    /\ ~fatal /\ pc[g] = "n_lock_pinned"
    /\ Goto(g, "n_go")
    /\ UNCHANGED <<ptr, store, pinned, release, mem, bgpc, arg, addr, hist, fatal>>

\* v.pinned.Lock()
NewLockPinned(g) ==
    /\ ~fatal /\ pc[g] = "n_lock_pinned"
    /\ ~pinned[g]
    /\ pinned' = [pinned EXCEPT ![g] = TRUE]
    /\ Goto(g, "n_go")
    /\ UNCHANGED <<ptr, store, release, mem, bgpc, arg, addr, hist, fatal>>

\* go func() { ... }()
NewGo(g) ==
    /\ ~fatal /\ pc[g] = "n_go"
    /\ bgpc' = [bgpc EXCEPT ![g] = "spawned"]
    /\ Goto(g, "n_wait")
    /\ UNCHANGED <<ptr, store, pinned, release, mem, arg, addr, hist, fatal>>

\* a NewPtrGuard that returns without waiting for the "pinned" signal
NewNoWait(g) ==
    /\ ~fatal /\ pc[g] = "n_wait"
    /\ Goto(g, "idle")
    /\ UNCHANGED <<ptr, store, pinned, release, mem, bgpc, arg, addr, hist, fatal>>

\* v.pinned.Lock() ("pinned" signal, <--(1)); return &v
NewWait(g) ==
    /\ ~fatal /\ pc[g] = "n_wait"
    /\ ~pinned[g]
    /\ pinned' = [pinned EXCEPT ![g] = TRUE]
    /\ Goto(g, "idle")
    /\ UNCHANGED <<ptr, store, release, mem, bgpc, arg, addr, hist, fatal>>

(* ------------------------------ the goroutine ------------------------- *)

\* a goroutine that takes the pointer over and clears v.ptr when it starts
BgEnterTakesPtr(g) ==
    /\ ~fatal /\ bgpc[g] = "spawned"
    /\ bgpc' = [bgpc EXCEPT ![g] = "pin_signal"]
    /\ ptr' = [ptr EXCEPT ![g] = 0]
    /\ UNCHANGED <<store, pinned, release, mem, pc, arg, addr, hist, fatal>>

\* the goroutine starts running and calls pinUntilRelease(&v, uintptr(goPtr))
BgEnter(g) ==
    /\ ~fatal /\ bgpc[g] = "spawned"
    /\ bgpc' = [bgpc EXCEPT ![g] = "pin_signal"]
    /\ UNCHANGED <<ptr, store, pinned, release, mem, pc, arg, addr, hist, fatal>>

\* pinUntilRelease: v.pinned.Unlock() ("pinned" signal, -->(1))
BgSignalPinned(g) ==
    /\ ~fatal /\ bgpc[g] = "pin_signal"
    /\ IF pinned[g]
       THEN /\ pinned' = [pinned EXCEPT ![g] = FALSE]
            /\ bgpc' = [bgpc EXCEPT ![g] = "pin_wait"]
            /\ fatal' = fatal
       ELSE /\ fatal' = TRUE
            /\ UNCHANGED <<pinned, bgpc>>
    /\ UNCHANGED <<ptr, store, release, mem, pc, arg, addr, hist>>

\* pinUntilRelease: v.release.Lock() ("release" signal, <--(2)); return
BgWaitRelease(g) ==
    /\ ~fatal /\ bgpc[g] = "pin_wait"
    /\ ~release[g]
    /\ release' = [release EXCEPT ![g] = TRUE]
    /\ bgpc' = [bgpc EXCEPT ![g] = "unwound"]
    /\ UNCHANGED <<ptr, store, pinned, mem, pc, arg, addr, hist, fatal>>

\* a goroutine that ends without sending the "released" signal
BgExitSilently(g) ==
    /\ ~fatal /\ bgpc[g] = "unwound"
    /\ bgpc' = [bgpc EXCEPT ![g] = "done"]
    /\ UNCHANGED <<ptr, store, pinned, release, mem, pc, arg, addr, hist, fatal>>

\* v.pinned.Unlock() ("released" signal, -->(3)); the goroutine ends
BgSignalReleased(g) ==
    /\ ~fatal /\ bgpc[g] = "unwound"
    /\ IF pinned[g]
       THEN /\ pinned' = [pinned EXCEPT ![g] = FALSE]
            /\ bgpc' = [bgpc EXCEPT ![g] = "done"]
            /\ fatal' = fatal
       ELSE /\ fatal' = TRUE
            /\ UNCHANGED <<pinned, bgpc>>
    /\ UNCHANGED <<ptr, store, release, mem, pc, arg, addr, hist>>

(* ------------------------------ Store --------------------------------- *)

\* the owner calls v.Store(cPtr)
CallStore(g, c) ==
    /\ ~fatal /\ pc[g] = "idle"
    /\ Len(hist[g]) < MaxCalls
    /\ arg' = [arg EXCEPT ![g] = c]
    /\ Goto(g, "s_check")
    /\ UNCHANGED <<ptr, store, pinned, release, mem, bgpc, addr, hist, fatal>>

\* a Store without the test for a released guard
StoreCheckNoDead(g) ==
    /\ ~fatal /\ pc[g] = "s_check"
    /\ Goto(g, "s_bound")
    /\ UNCHANGED <<ptr, store, pinned, release, mem, bgpc, arg, addr, hist, fatal>>

\* if v.ptr == 0 { return v }
StoreCheck(g) ==
    /\ ~fatal /\ pc[g] = "s_check"
    /\ IF ptr[g] = 0
       THEN Ret(g, "Store", "noop")
       ELSE Goto(g, "s_bound") /\ UNCHANGED <<arg, hist>>
    /\ UNCHANGED <<ptr, store, pinned, release, mem, bgpc, addr, fatal>>

\* a Store without the test for an earlier binding
StoreBoundNoPanic(g) ==
    /\ ~fatal /\ pc[g] = "s_bound"
    /\ Goto(g, "s_bind")
    /\ UNCHANGED <<ptr, store, pinned, release, mem, bgpc, arg, addr, hist, fatal>>

\* a Store that takes the new cell as its binding before it panics
StoreBoundRebinds(g) ==
    /\ ~fatal /\ pc[g] = "s_bound"
    /\ IF store[g] # NULL
       THEN Ret(g, "Store", "panic") /\ store' = [store EXCEPT ![g] = arg[g]]
       ELSE Goto(g, "s_bind") /\ UNCHANGED <<arg, hist, store>>
    /\ UNCHANGED <<ptr, pinned, release, mem, bgpc, addr, fatal>>

\* if v.store != nil { panic("double call of Poke()") }
StoreBound(g) ==
    /\ ~fatal /\ pc[g] = "s_bound"
    /\ IF store[g] # NULL
       THEN Ret(g, "Store", "panic")
       ELSE Goto(g, "s_bind") /\ UNCHANGED <<arg, hist>>
    /\ UNCHANGED <<ptr, store, pinned, release, mem, bgpc, addr, fatal>>

\* v.store = uintptrPtr(cPtr)
StoreBind(g) ==
    /\ ~fatal /\ pc[g] = "s_bind"
    /\ store' = [store EXCEPT ![g] = arg[g]]
    /\ Goto(g, "s_write")
    /\ UNCHANGED <<ptr, pinned, release, mem, bgpc, arg, addr, hist, fatal>>

\* a Store that records the cell but does not write the pointer into it
StoreWriteNothing(g) ==
    /\ ~fatal /\ pc[g] = "s_write"
    /\ Ret(g, "Store", IF store[g] = NULL THEN "panic" ELSE "ok")
    /\ UNCHANGED <<ptr, store, pinned, release, mem, bgpc, addr, fatal>>

\* *v.store = v.ptr; return v   (a nil v.store makes the write panic)
StoreWrite(g) ==
    /\ ~fatal /\ pc[g] = "s_write"
    /\ IF store[g] = NULL
       THEN Ret(g, "Store", "panic") /\ mem' = mem
       ELSE Ret(g, "Store", "ok") /\ mem' = [mem EXCEPT ![store[g]] = ptr[g]]
    /\ UNCHANGED <<ptr, store, pinned, release, bgpc, addr, fatal>>

(* ------------------------------ Release ------------------------------- *)

\* the owner calls v.Release()
CallRelease(g) ==
    /\ ~fatal /\ pc[g] = "idle"
    /\ Len(hist[g]) < MaxCalls
    /\ Goto(g, "r_check")
    /\ UNCHANGED <<ptr, store, pinned, release, mem, bgpc, arg, addr, hist, fatal>>

\* a Release without the test for a released guard
ReleaseCheckAlways(g) ==
    /\ ~fatal /\ pc[g] = "r_check"
    /\ Goto(g, "r_zero_ptr")
    /\ UNCHANGED <<ptr, store, pinned, release, mem, bgpc, arg, addr, hist, fatal>>

\* if v.ptr == 0 { return }
ReleaseCheck(g) ==
    /\ ~fatal /\ pc[g] = "r_check"
    /\ IF ptr[g] = 0
       THEN Ret(g, "Release", "noop")
       ELSE Goto(g, "r_zero_ptr") /\ UNCHANGED <<arg, hist>>
    /\ UNCHANGED <<ptr, store, pinned, release, mem, bgpc, addr, fatal>>

\* a Release that leaves v.ptr as it is
ReleaseKeepPtr(g) ==
    /\ ~fatal /\ pc[g] = "r_zero_ptr"
    /\ Goto(g, "r_test_store")
    /\ UNCHANGED <<ptr, store, pinned, release, mem, bgpc, arg, addr, hist, fatal>>

\* v.ptr = 0
ReleaseZeroPtr(g) ==
    /\ ~fatal /\ pc[g] = "r_zero_ptr"
    /\ ptr' = [ptr EXCEPT ![g] = 0]
    /\ Goto(g, "r_test_store")
    /\ UNCHANGED <<store, pinned, release, mem, bgpc, arg, addr, hist, fatal>>

\* a Release that never takes the branch that zeroes the foreign cell
ReleaseSkipStore(g) ==
    /\ ~fatal /\ pc[g] = "r_test_store"
    /\ Goto(g, "r_fire")
    /\ UNCHANGED <<ptr, store, pinned, release, mem, bgpc, arg, addr, hist, fatal>>

\* if v.store != nil {
ReleaseTestStore(g) ==
    /\ ~fatal /\ pc[g] = "r_test_store"
    /\ IF store[g] # NULL THEN Goto(g, "r_zero_slot") ELSE Goto(g, "r_fire")
    /\ UNCHANGED <<ptr, store, pinned, release, mem, bgpc, arg, addr, hist, fatal>>

\* a Release that does not zero the foreign cell
ReleaseKeepSlot(g) ==
    /\ ~fatal /\ pc[g] = "r_zero_slot"
    /\ Goto(g, "r_clear_store")
    /\ UNCHANGED <<ptr, store, pinned, release, mem, bgpc, arg, addr, hist, fatal>>

\* *v.store = 0
ReleaseZeroSlot(g) ==
    /\ ~fatal /\ pc[g] = "r_zero_slot"
    /\ mem' = [mem EXCEPT ![store[g]] = 0]
    /\ Goto(g, "r_clear_store")
    /\ UNCHANGED <<ptr, store, pinned, release, bgpc, arg, addr, hist, fatal>>

\* a Release that zeroes the cell but keeps the binding
ReleaseKeepStore(g) ==
    /\ ~fatal /\ pc[g] = "r_clear_store"
    /\ Goto(g, "r_fire")
    /\ UNCHANGED <<ptr, store, pinned, release, mem, bgpc, arg, addr, hist, fatal>>

\* v.store = nil }
ReleaseClearStore(g) ==
    /\ ~fatal /\ pc[g] = "r_clear_store"
    /\ store' = [store EXCEPT ![g] = NULL]
    /\ Goto(g, "r_fire")
    /\ UNCHANGED <<ptr, pinned, release, mem, bgpc, arg, addr, hist, fatal>>

\* a Release whose gates are shared by all guards (those of guard 1)
ReleaseFireShared(g) ==
    /\ ~fatal /\ pc[g] = "r_fire"
    /\ IF release[1]
       THEN /\ release' = [release EXCEPT ![1] = FALSE]
            /\ Goto(g, "r_wait")
            /\ fatal' = fatal
       ELSE /\ fatal' = TRUE
            /\ UNCHANGED <<release, pc>>
    /\ UNCHANGED <<ptr, store, pinned, mem, bgpc, arg, addr, hist>>

\* a Release that goes on to wait without sending the "release" signal
ReleaseNoFire(g) ==
    /\ ~fatal /\ pc[g] = "r_fire"
    /\ Goto(g, "r_wait")
    /\ UNCHANGED <<ptr, store, pinned, release, mem, bgpc, arg, addr, hist, fatal>>

\* v.release.Unlock() ("release" signal, -->(2))
ReleaseFire(g) ==
    /\ ~fatal /\ pc[g] = "r_fire"
    /\ IF release[g]
       THEN /\ release' = [release EXCEPT ![g] = FALSE]
            /\ Goto(g, "r_wait")
            /\ fatal' = fatal
       ELSE /\ fatal' = TRUE
            /\ UNCHANGED <<release, pc>>
    /\ UNCHANGED <<ptr, store, pinned, mem, bgpc, arg, addr, hist>>

\* a Release that returns without waiting for the "released" signal
ReleaseNoWait(g) ==
    /\ ~fatal /\ pc[g] = "r_wait"
    /\ Ret(g, "Release", "ok")
    /\ UNCHANGED <<ptr, store, pinned, release, mem, bgpc, addr, fatal>>

\* v.pinned.Lock() ("released" signal, <--(3)); return
ReleaseWait(g) ==
    /\ ~fatal /\ pc[g] = "r_wait"
    /\ ~pinned[g]
    /\ pinned' = [pinned EXCEPT ![g] = TRUE]
    /\ Ret(g, "Release", "ok")
    /\ UNCHANGED <<ptr, store, release, mem, bgpc, addr, fatal>>

(* ------------------------------ specification ------------------------- *)

\* one statement of the owner inside NewPtrGuard, Store or Release
OwnerStep(g) ==
    \/ NewSetPtr(g) \/ NewLockRelease(g) \/ NewLockPinned(g) \/ NewGo(g)
    \/ NewWait(g)
    \/ StoreCheck(g) \/ StoreBound(g) \/ StoreBind(g) \/ StoreWrite(g)
    \/ ReleaseCheck(g) \/ ReleaseZeroPtr(g) \/ ReleaseTestStore(g)
    \/ ReleaseZeroSlot(g) \/ ReleaseClearStore(g) \/ ReleaseFire(g)
    \/ ReleaseWait(g)

\* one statement of the background goroutine
BgStep(g) ==
    \/ BgEnter(g) \/ BgSignalPinned(g) \/ BgWaitRelease(g)
    \/ BgSignalReleased(g)

\* one owner, one guard, any sequence of Store and Release calls
Next ==
    \E g \in Solo :
        \/ OwnerStep(g)
        \/ BgStep(g)
        \/ \E c \in CPtrs : CallStore(g, c)
        \/ CallRelease(g)

Spec == Init /\ [][Next]_vars

\* every runnable goroutine is eventually scheduled: the owner inside a call
\* and the background goroutine each take their next statement when they can
FairSpec ==
    /\ Spec
    /\ \A g \in Solo : WF_vars(OwnerStep(g)) /\ WF_vars(BgStep(g))

(* ---------------- foreign code reusing its cells ----------------------- *)

\* foreign code writes one of its cells; it leaves a cell alone while a
\* guard has it bound
ForeignWrite(c, v) ==
    /\ ~fatal
    /\ \A g \in Guards : store[g] # c
    /\ mem[c] # v
    /\ mem' = [mem EXCEPT ![c] = v]
    /\ UNCHANGED <<ptr, store, pinned, release, pc, bgpc, arg, addr, hist, fatal>>

NextReuse ==
    \/ Next
    \/ \E c \in Cells : \E v \in ForeignVals : ForeignWrite(c, v)

SpecReuse == Init /\ [][NextReuse]_vars

(* ---------------- N owners: construct ; Store ; Release ---------------- *)

\* the owner of g publishes the pointer in its own cell, once
ScriptStore(g) == hist[g] = <<>> /\ CallStore(g, CellOf(g))

\* the owner of g releases the guard after the Store
ScriptRelease(g) == Len(hist[g]) = 1 /\ CallRelease(g)

NextN ==
    \E g \in Guards :
        \/ OwnerStep(g)
        \/ BgStep(g)
        \/ ScriptStore(g)
        \/ ScriptRelease(g)

FairSpecN ==
    /\ Init /\ [][NextN]_vars
    /\ \A g \in Guards :
        /\ WF_vars(OwnerStep(g) \/ ScriptStore(g) \/ ScriptRelease(g))
        /\ WF_vars(BgStep(g))

(* ------------------------------ observers ----------------------------- *)

\* NewPtrGuard has returned
Constructed(g) == pc[g] \notin NewPcs

\* the goroutine is inside pinUntilRelease: the retain on goPtr is active
Pinning(g) == bgpc[g] \in {"pin_signal", "pin_wait"}

\* a Release of the live guard has returned
Released(g) ==
    \E i \in DOMAIN hist[g] : hist[g][i].op = "Release" /\ hist[g][i].res = "ok"

\* Release has fired the terminate gate (release.Unlock)
Fired(g) == pc[g] = "r_wait" \/ Released(g)

\* the completed calls of the owner that came before its i-th call
Before(g, i) == {j \in DOMAIN hist[g] : j < i}

\* the cells a Store of g has written the pointer into
BoundCells(g) ==
    {hist[g][i].cell : i \in {j \in DOMAIN hist[g] :
                                hist[g][j].op = "Store" /\ hist[g][j].res = "ok"}}

\* no Store has been called on g
NoStore(g) ==
    /\ pc[g] \notin StorePcs
    /\ \A i \in DOMAIN hist[g] : hist[g][i].op # "Store"

\* the lifecycle state of the guard
Phase(g) ==
    IF ~Constructed(g) THEN "Armed"
    ELSE IF Released(g) THEN "Released" ELSE "Pinned"

(* ------------------------------ claims -------------------------------- *)

\* C1: from the return of NewPtrGuard until Release fires the terminate gate
\* (release.Unlock), the goroutine of the guard is inside pinUntilRelease.
C1_PinHeldUntilRelease ==
    \A g \in Guards : (Constructed(g) /\ ~Fired(g)) => Pinning(g)

\* C1 witness: Release of a constructed guard stands right before
\* release.Unlock and the goroutine is still inside pinUntilRelease.
C1_Witness ==
    \E g \in Guards : pc[g] = "r_fire" /\ ptr[g] = 0 /\ Pinning(g)

\* C2: once a Release of a live guard has returned, the goroutine has left
\* pinUntilRelease and has run its last statement.
C2_ReleaseReturnsAfterUnwind ==
    \A g \in Guards : Released(g) => (bgpc[g] = "done" /\ ~Pinning(g))

\* C2 witness: a Release of a live guard has just returned.
C2_Witness ==
    \E g \in Guards :
        /\ pc[g] = "idle" /\ hist[g] # <<>>
        /\ hist[g][Len(hist[g])] = Call("Release", NULL, "ok")
        /\ bgpc[g] = "done"

\* C3 as stated: a Store that follows a Store which bound a cell ends in a
\* panic, whether or not a Release came between the two.
C3_SecondStoreAlwaysPanics ==
    \A g \in Guards : \A i \in DOMAIN hist[g] :
        ( /\ hist[g][i].op = "Store"
          /\ \E j \in Before(g, i) :
                hist[g][j].op = "Store" /\ hist[g][j].res = "ok" )
        => hist[g][i].res = "panic"

\* C3 amended: a Store that follows a Store which bound a cell ends in a
\* panic when no Release came before it, and returns without a panic, as a
\* no-op, when a Release came before it.
C3_SecondStorePanicsWhileLive ==
    \A g \in Guards : \A i \in DOMAIN hist[g] :
        ( /\ hist[g][i].op = "Store"
          /\ \E j \in Before(g, i) :
                hist[g][j].op = "Store" /\ hist[g][j].res = "ok" )
        => IF \E k \in Before(g, i) : hist[g][k].op = "Release"
           THEN hist[g][i].res = "noop"
           ELSE hist[g][i].res = "panic"

\* C3 witness: Store, a second Store (panic), Release, a third Store (no-op).
C3_Witness ==
    \E g \in Guards :
        /\ Len(hist[g]) = 4
        /\ hist[g][1].op = "Store" /\ hist[g][1].res = "ok"
        /\ hist[g][2].op = "Store" /\ hist[g][2].res = "panic"
        /\ hist[g][3].op = "Release" /\ hist[g][3].res = "ok"
        /\ hist[g][4].op = "Store" /\ hist[g][4].res = "noop"

\* C4: a Release called after a Release of the live guard has returned takes
\* one step, from its test of ptr straight to its return: it waits on no
\* gate, fires no gate and writes neither ptr nor any foreign cell.
C4_ReleaseIdempotent ==
    [][\A g \in Guards :
         (Released(g) /\ pc[g] \in ReleasePcs /\ pc'[g] # pc[g]) =>
            /\ pc[g] = "r_check" /\ pc'[g] = "idle"
            /\ hist'[g][Len(hist'[g])].res = "noop"
            /\ ptr' = ptr /\ store' = store /\ mem' = mem
            /\ pinned' = pinned /\ release' = release
            /\ fatal' = fatal]_vars

\* C4 witness: a second Release has returned although the cell the guard had
\* bound holds a new nonzero value, which it keeps.
C4_Witness ==
    \E g \in Guards : \E i, j \in DOMAIN hist[g] :
        /\ i < j /\ pc[g] = "idle"
        /\ hist[g][i].op = "Release" /\ hist[g][i].res = "ok"
        /\ hist[g][j].op = "Release" /\ hist[g][j].res = "noop"
        /\ \E c \in BoundCells(g) : mem[c] # 0

\* C5: after NewPtrGuard(A) ; Store(slot) the slot holds A when Store has
\* returned, and after a following Release it holds 0 when Release has
\* returned.
C5_StoreThenRelease ==
    \A g \in Guards : \A c \in Cells :
        (hist[g] # <<>> /\ hist[g][1].op = "Store" /\ hist[g][1].cell = c) =>
            /\ hist[g][1].res = "ok"
            /\ (Len(hist[g]) = 1 /\ pc[g] = "idle") => mem[c] = addr[g]
            /\ (Len(hist[g]) >= 2 /\ hist[g][2].op = "Release") =>
                  /\ hist[g][2].res = "ok"
                  /\ (Len(hist[g]) = 2 /\ pc[g] = "idle") => mem[c] = 0

\* C5 witness: Store(slot) and then Release have returned; the slot holds 0.
C5_Witness ==
    \E g \in Guards : \E c \in Cells :
        /\ hist[g] = <<Call("Store", c, "ok"), Call("Release", NULL, "ok")>>
        /\ pc[g] = "idle" /\ mem[c] = 0 /\ addr[g] # 0

\* C6 as stated: in every state of a constructed guard in which ptr is 0,
\* the cell that Store bound holds 0.
C6_SlotZeroWheneverPtrZero ==
    \A g \in Guards :
        (Constructed(g) /\ ptr[g] = 0) => \A c \in BoundCells(g) : mem[c] = 0

\* C6 amended: the bound cell is zeroed by the statement of Release that
\* follows the zeroing of ptr: in every state in which ptr is 0 and Release
\* does not stand between the two statements, the bound cell holds 0.
C6_SlotZeroAfterZeroing ==
    \A g \in Guards :
        ( /\ Constructed(g) /\ ptr[g] = 0
          /\ pc[g] \notin {"r_test_store", "r_zero_slot"} )
        => \A c \in BoundCells(g) : mem[c] = 0

\* C6 witness: Release has zeroed ptr and the bound cell and has not yet
\* fired the terminate gate.
C6_Witness ==
    \E g \in Guards :
        /\ pc[g] = "r_clear_store" /\ ptr[g] = 0
        /\ BoundCells(g) # {} /\ \A c \in BoundCells(g) : mem[c] = 0
        /\ Pinning(g)

\* C7: ptr is zeroed only in the Pinned state and is never nonzero again;
\* every Release that has returned leaves ptr 0; the lifecycle moves only
\* Armed -> Pinned -> Released; and in Released no step changes the guard.
C7_Lifecycle ==
    [][\A g \in Guards :
         /\ (Constructed(g) /\ ptr[g] = 0) => ptr'[g] = 0
         /\ (ptr[g] # 0 /\ ptr'[g] = 0) => Phase(g) = "Pinned"
         /\ (\E i \in DOMAIN hist'[g] : hist'[g][i].op = "Release")
               => ptr'[g] = 0
         /\ <<Phase(g), Phase(g)'>> \in
               { <<"Armed", "Armed">>, <<"Armed", "Pinned">>,
                 <<"Pinned", "Pinned">>, <<"Pinned", "Released">>,
                 <<"Released", "Released">> }
         /\ Phase(g) = "Released" =>
               /\ ptr'[g] = ptr[g] /\ store'[g] = store[g]
               /\ pinned'[g] = pinned[g] /\ release'[g] = release[g]
               /\ bgpc'[g] = bgpc[g]]_vars

\* C7 witness: after the Release of the live guard a Store and a Release
\* more have returned, and the guard is still Released with ptr 0.
C7_Witness ==
    \E g \in Guards :
        /\ Phase(g) = "Released" /\ ptr[g] = 0 /\ pc[g] = "idle"
        /\ \E i, j, k \in DOMAIN hist[g] :
              /\ i < j /\ i < k
              /\ hist[g][i] = Call("Release", NULL, "ok")
              /\ hist[g][j].op = "Store"
              /\ hist[g][k].op = "Release"

\* C8: a Store that finds ptr 0 returns in that step without a panic, and
\* the step changes no foreign cell, no binding and no gate; no later
\* statement of Store is ever reached with ptr 0.
C8_StoreOnReleasedIsInert ==
    [][\A g \in Guards :
         /\ (pc[g] \in StorePcs \ {"s_check"}) => ptr[g] # 0
         /\ (pc[g] = "s_check" /\ ptr[g] = 0 /\ pc'[g] # pc[g]) =>
               /\ pc'[g] = "idle"
               /\ hist'[g][Len(hist'[g])] = Call("Store", arg[g], "noop")
               /\ mem' = mem /\ store' = store /\ ptr' = ptr
               /\ pinned' = pinned /\ release' = release
               /\ fatal' = fatal]_vars

\* C8 witness: a Store on a released guard has returned; the cell it was
\* given holds a nonzero value and the guard has no binding.
C8_Witness ==
    \E g \in Guards : \E c \in Cells :
        /\ pc[g] = "idle" /\ hist[g] # <<>>
        /\ hist[g][Len(hist[g])] = Call("Store", c, "noop")
        /\ Released(g) /\ ptr[g] = 0
        /\ mem[c] # 0 /\ store[g] = NULL

\* C9: when Store is never called, no foreign cell is ever written, nothing
\* panics or dies, a Release that has returned leaves ptr 0 and no binding,
\* and every Release that is called returns.
C9_ReleaseWithoutStore ==
    /\ [](\A g \in Solo : NoStore(g) =>
            /\ mem = [c \in Cells |-> 0]
            /\ ~fatal
            /\ store[g] = NULL
            /\ \A i \in DOMAIN hist[g] : hist[g][i].res # "panic"
            /\ hist[g] # <<>> =>
                  /\ hist[g][1] = Call("Release", NULL, "ok")
                  /\ ptr[g] = 0)
    /\ \A g \in Solo :
          (NoStore(g) /\ pc[g] \in ReleasePcs) ~> (NoStore(g) /\ pc[g] = "idle")

\* C9 witness: NewPtrGuard ; Release has completed, Store was never called.
C9_Witness ==
    \E g \in Solo :
        /\ hist[g] = <<Call("Release", NULL, "ok")>>
        /\ pc[g] = "idle" /\ ptr[g] = 0 /\ bgpc[g] = "done"
        /\ mem = [c \in Cells |-> 0]

\* every Release has returned and every goroutine has ended
AllDone ==
    \A g \in Guards : Released(g) /\ pc[g] = "idle" /\ bgpc[g] = "done"

\* C10: with every guard run through construct ; Store ; Release, a step of
\* guard i leaves the ptr, binding, gates and foreign cell of every other
\* guard unchanged, and every run reaches the state where all Releases have
\* returned and all goroutines have ended.
C10_IndependentGuards ==
    /\ [][\A i \in Guards : \A j \in Guards \ {i} :
            (pc'[i] # pc[i] \/ bgpc'[i] # bgpc[i]) =>
               /\ ptr'[j] = ptr[j] /\ store'[j] = store[j]
               /\ pinned'[j] = pinned[j] /\ release'[j] = release[j]
               /\ mem'[CellOf(j)] = mem[CellOf(j)]]_vars
    /\ <>AllDone

\* C10 witness: all guards (more than one) have completed the cycle.
C10_Witness ==
    /\ NumGuards >= 2 /\ AllDone
    /\ \A g \in Guards :
          hist[g] = <<Call("Store", CellOf(g), "ok"), Call("Release", NULL, "ok")>>
    /\ mem = [c \in Cells |-> 0]


\* C11: the guard writes its pinned address into a foreign cell, and sets
\* its binding to a cell, only in a Store that finds no earlier binding; so
\* over any sequence of calls at most one cell is ever written and bound.
C11_AtMostOneBinding ==
    [][\A g \in Solo :
         /\ (store'[g] # store[g] /\ store'[g] # NULL) =>
               (pc[g] = "s_bind" /\ store[g] = NULL /\ BoundCells(g) = {})
         /\ \A c \in Cells : (mem'[c] # mem[c] /\ mem'[c] # 0) =>
               /\ pc[g] = "s_write" /\ c = store[g] /\ mem'[c] = addr[g]
               /\ BoundCells(g) = {}
         /\ Cardinality(BoundCells(g)') <= 1
         /\ Cardinality({i \in DOMAIN hist'[g] :
               hist'[g][i].op = "Store" /\ hist'[g][i].res = "ok"}) <= 1]_vars

\* C11 witness: Store on one cell, an aborted Store on another cell, Release
\* and a Store after Release; only the first cell was ever bound, and the
\* other cell was never written.
C11_Witness ==
    \E g \in Solo : \E c, d \in Cells :
        /\ c # d /\ pc[g] = "idle"
        /\ hist[g] = <<Call("Store", c, "ok"), Call("Store", d, "panic"),
                       Call("Release", NULL, "ok"), Call("Store", d, "noop")>>
        /\ BoundCells(g) = {c} /\ mem[d] = 0


\* the owner stands at a Lock of a mutex that is locked
OwnerBlocked(g) ==
    \/ pc[g] = "n_lock_release" /\ release[g]
    \/ pc[g] \in {"n_lock_pinned", "n_wait", "r_wait"} /\ pinned[g]

\* the goroutine stands at its Lock of the release mutex, which is locked
BgBlocked(g) == bgpc[g] = "pin_wait" /\ release[g]

\* C12: the owner and the goroutine are never both blocked on a gate, and
\* under fair scheduling every NewPtrGuard returns, every Release of a live
\* guard returns and the goroutine then has ended.
C12_DeadlockFree ==
    /\ [](\A g \in Solo : ~(OwnerBlocked(g) /\ BgBlocked(g)))
    /\ \A g \in Solo : (~Constructed(g)) ~> Constructed(g)
    /\ \A g \in Solo :
          (pc[g] \in ReleasePcs /\ ~Released(g))
             ~> (pc[g] = "idle" /\ Released(g) /\ bgpc[g] = "done")

\* C12 witness: Release of a live guard waits for the "released" signal
\* while the goroutine, released, is about to send it.
C12_Witness ==
    \E g \in Solo :
        /\ pc[g] = "r_wait" /\ OwnerBlocked(g)
        /\ bgpc[g] = "unwound" /\ ~BgBlocked(g)


\* the goroutine has returned from pinUntilRelease: the retain is dropped
Unpinned(g) == bgpc[g] \in {"unwound", "done"}

\* C13: once Release has fired the terminate gate, and so in every state in
\* which the goroutine has left pinUntilRelease, ptr is 0, the guard has no
\* binding and every cell that Store bound holds 0.
C13_ZeroedBeforeFire ==
    \A g \in Guards :
        (Fired(g) \/ Unpinned(g)) =>
            /\ ptr[g] = 0 /\ store[g] = NULL
            /\ \A c \in BoundCells(g) : mem[c] = 0

\* C13 witness: the goroutine has just left pinUntilRelease during a Release
\* of a guard that had a bound cell; the cell holds 0.
C13_Witness ==
    \E g \in Guards : \E c \in Cells :
        /\ bgpc[g] = "unwound" /\ pc[g] = "r_wait"
        /\ BoundCells(g) = {c} /\ mem[c] = 0 /\ ptr[g] = 0


\* Release has not been called on g
NoRelease(g) ==
    /\ pc[g] \notin ReleasePcs
    /\ \A i \in DOMAIN hist[g] : hist[g][i].op # "Release"

\* C14: the goroutine leaves pinUntilRelease only after Release has fired
\* the terminate gate; as long as Release has not been called on a
\* constructed guard, whatever Stores are made, the goroutine stays blocked
\* on the locked release mutex inside pinUntilRelease.
C14_ExitOnlyByRelease ==
    \A g \in Guards :
        /\ Unpinned(g) => Fired(g)
        /\ (Constructed(g) /\ NoRelease(g)) =>
              (BgBlocked(g) /\ Pinning(g) /\ ~fatal)

\* C14 witness: the owner has used up its calls on Stores, among them one
\* that bound a cell and one that aborted; the goroutine is still blocked.
C14_Witness ==
    \E g \in Guards :
        /\ pc[g] = "idle" /\ Len(hist[g]) = MaxCalls /\ NoRelease(g)
        /\ \E i, j \in DOMAIN hist[g] :
              hist[g][i].res = "ok" /\ hist[g][j].res = "panic"
        /\ BgBlocked(g) /\ Pinning(g)


\* C15: when NewPtrGuard spawns the goroutine both mutexes are locked; the
\* goroutine's Lock of the release mutex succeeds only after Release has
\* fired it, and the constructor's second Lock of the pinned mutex succeeds
\* only after the goroutine has fired it.
C15_GatesArmedBeforeSpawn ==
    [][\A g \in Guards :
         /\ (bgpc[g] = "unspawned" /\ bgpc'[g] # "unspawned") =>
               (pinned[g] /\ release[g])
         /\ (bgpc[g] = "pin_wait" /\ bgpc'[g] # "pin_wait") => Fired(g)
         /\ (pc[g] = "n_wait" /\ pc'[g] # "n_wait") =>
               (bgpc[g] = "pin_wait" /\ ~fatal')
         /\ (bgpc[g] \in {"spawned", "pin_signal"}) =>
               (pinned[g] /\ release[g] /\ pc[g] = "n_wait")]_vars

\* C15 witness: the goroutine has been spawned and has not run yet; both
\* mutexes are locked and the constructor waits on the pinned mutex.
C15_Witness ==
    \E g \in Guards :
        /\ bgpc[g] = "spawned" /\ pc[g] = "n_wait"
        /\ pinned[g] /\ release[g] /\ OwnerBlocked(g)


\* C16: every Unlock is executed on a locked mutex: Release stands at
\* release.Unlock only with release locked, the goroutine stands at either
\* pinned.Unlock only with pinned locked, and the fatal "unlock of unlocked
\* mutex" never happens.
C16_UnlockOnlyLocked ==
    \A g \in Guards :
        /\ ~fatal
        /\ pc[g] = "r_fire" => release[g]
        /\ bgpc[g] = "pin_signal" => pinned[g]
        /\ bgpc[g] = "unwound" => pinned[g]

\* C16 witness: after a Store that bound a cell and a Store that aborted,
\* Release stands at release.Unlock with the release mutex locked.
C16_Witness ==
    \E g \in Guards :
        /\ pc[g] = "r_fire" /\ release[g] /\ ~fatal
        /\ \E i, j \in DOMAIN hist[g] :
              hist[g][i].res = "ok" /\ hist[g][j].res = "panic"


\* C17: a step of the goroutine changes neither ptr nor the binding nor any
\* foreign cell (nor the owner's position): it changes at most the mutexes;
\* ptr, the binding and the cells change only in steps of the owner.
C17_GoroutineTouchesOnlyGates ==
    [][\A g \in Solo :
         /\ (bgpc[g] # "unspawned" /\ bgpc'[g] # bgpc[g]) =>
               /\ ptr' = ptr /\ store' = store /\ mem' = mem
               /\ pc' = pc /\ arg' = arg /\ hist' = hist
               /\ addr' = addr /\ fatal' = fatal
         /\ (ptr' # ptr \/ store' # store \/ mem' # mem) =>
               (pc'[g] # pc[g] /\ bgpc' = bgpc)]_vars

\* C17 witness: the goroutine has run to its end during the Release of a
\* guard that had bound a cell; its last step unlocked the pinned mutex.
C17_Witness ==
    \E g \in Solo :
        /\ bgpc[g] = "done" /\ pc[g] = "r_wait" /\ ~pinned[g]
        /\ ptr[g] = 0 /\ BoundCells(g) # {}


\* C18: a Store that finds the live guard bound ends in a panic in that
\* step, which changes no cell, not the binding, not ptr and no mutex, the
\* bound cell still holding the pinned address; a Release called after it
\* returns, and the cell bound first then holds 0.
C18_AbortedStoreChangesNothing ==
    /\ [][\A g \in Solo :
            (pc[g] = "s_bound" /\ store[g] # NULL /\ pc'[g] # pc[g]) =>
               /\ pc'[g] = "idle"
               /\ hist'[g][Len(hist'[g])] = Call("Store", arg[g], "panic")
               /\ mem' = mem /\ store' = store /\ ptr' = ptr
               /\ pinned' = pinned /\ release' = release /\ fatal' = fatal
               /\ ptr[g] = addr[g] /\ mem[store[g]] = addr[g]]_vars
    /\ \A g \in Solo : \A c \in Cells :
          ( /\ Len(hist[g]) = 2 /\ pc[g] \in ReleasePcs
            /\ hist[g][1] = Call("Store", c, "ok")
            /\ hist[g][2].op = "Store" /\ hist[g][2].res = "panic" )
          ~> ( /\ pc[g] = "idle" /\ Len(hist[g]) = 3
               /\ hist[g][3] = Call("Release", NULL, "ok")
               /\ mem[c] = 0 /\ store[g] = NULL )

\* C18 witness: Store on one cell, an aborted Store on another cell, then a
\* Release that has returned; both cells hold 0.
C18_Witness ==
    \E g \in Solo : \E c, d \in Cells :
        /\ c # d /\ pc[g] = "idle"
        /\ hist[g] = <<Call("Store", c, "ok"), Call("Store", d, "panic"),
                       Call("Release", NULL, "ok")>>
        /\ mem[c] = 0 /\ mem[d] = 0


\* C19: a writeStep is a guard over the buffer's base address on which only
\* Release is called (free).  newWriteStep returns with the goroutine inside
\* pinUntilRelease, where it stays until free is called; no cell is ever
\* bound; the first free releases the pin and ends the goroutine; a later
\* free returns in its first step, waits on no mutex and is not fatal.
C19_WriteStepLife ==
    [][\A g \in Guards : NoStore(g) =>
         /\ (Constructed(g) /\ NoRelease(g)) => (Pinning(g) /\ ptr[g] = addr[g])
         /\ store[g] = NULL /\ BoundCells(g) = {}
         /\ \A i \in DOMAIN hist[g] :
               hist[g][i] = Call("Release", NULL, IF i = 1 THEN "ok" ELSE "noop")
         /\ Released(g) => (bgpc[g] = "done" /\ ptr[g] = 0)
         /\ (Released(g) /\ pc[g] \in ReleasePcs /\ pc'[g] # pc[g]) =>
               /\ pc'[g] = "idle" /\ ~fatal'
               /\ pinned' = pinned /\ release' = release /\ mem' = mem]_vars

\* C19 witness: free has been called three times on a writeStep; the first
\* call released the pin and the other two returned at once.
C19_Witness ==
    \E g \in Guards :
        /\ NoStore(g) /\ pc[g] = "idle" /\ bgpc[g] = "done"
        /\ hist[g] = <<Call("Release", NULL, "ok"), Call("Release", NULL, "noop"),
                       Call("Release", NULL, "noop")>>


\* C20: after a Release of the live guard has returned, ptr is 0, the
\* binding is nil, both mutexes are locked, the goroutine has ended and the
\* owner stands at no statement that locks or unlocks a mutex.
C20_TerminalConfiguration ==
    \A g \in Guards :
        Released(g) =>
            /\ ptr[g] = 0 /\ store[g] = NULL
            /\ pinned[g] /\ release[g]
            /\ bgpc[g] = "done"
            /\ pc[g] \notin (NewPcs \cup {"r_fire", "r_wait"})
            /\ ~fatal

\* C20 witness: the owner has used up its calls, the first a Store that
\* bound a cell, the second the Release; the guard holds both mutexes
\* locked.
C20_Witness ==
    \E g \in Guards :
        /\ pc[g] = "idle" /\ Len(hist[g]) = MaxCalls
        /\ hist[g][1].res = "ok" /\ hist[g][2] = Call("Release", NULL, "ok")
        /\ pinned[g] /\ release[g] /\ ptr[g] = 0 /\ store[g] = NULL

=============================================================================
